---- MODULE Spec2Model ----
(***************************************************************************)
(* MoNet-Analyzer: the settings store, the folder scanner, the inference   *)
(* engine (monet_engine.py) and the desktop application with its batch     *)
(* worker thread (main.py).                                                *)
(*                                                                         *)
(* Three specifications share the module:                                  *)
(*   Spec          the application: UI handlers interleaved with the steps *)
(*                 of the background worker threads;                       *)
(*   SpecSettings  load_settings / save_settings on arbitrary files;       *)
(*   SpecEngine    run_inference on bounded input tables.                  *)
(***************************************************************************)
EXTENDS Integers, Sequences, FiniteSets, TLC

VARIABLES
    \* ---- the application (main.py) ----
    settingsFile,   \* app_settings.json on disk
    settings,       \* self.settings, loaded once in __init__
    inputVar,       \* self.paths["input"] (text of the folder field)
    filter_var,     \* self.filter_var (text)
    explain_text,   \* self.explain_text
    items,          \* self.items
    tree,           \* rows of self.tree, in display order
    lbl_count,      \* number shown by self.lbl_count (NoCount: "No files loaded.")
    stop_flag,      \* self.stop_flag
    run_btn,        \* state of self.run_btn
    stop_btn,       \* state of self.stop_btn
    log_text,       \* lines of self.log_text
    dialog,         \* the message box the last step showed ("": none)
    engineModel,    \* self.engine.model is set
    modelExists,    \* DEFAULT_MODEL_PATH.exists()
    workers,        \* the worker threads started so far, by run number
    outputs,        \* the per-file CSVs present under the output roots
    manifests,      \* processing_info.txt of each output root that has one
    used,           \* how much of MaxConfig and MaxFaults the behaviour has used
    \* ---- SpecSettings ----
    sCall,          \* the last call made to the settings store and its result
    \* ---- SpecEngine ----
    eIn,            \* the input of run_inference
    eOut            \* its result

appVars == <<settingsFile, settings, inputVar, filter_var, explain_text, items,
             tree, lbl_count, stop_flag, run_btn, stop_btn, log_text, dialog,
             engineModel, modelExists, workers, outputs, manifests, used>>
vars == <<appVars, sCall, eIn, eOut>>

(***************************************************************************)
(* Text.  A header of a CSV file is a sequence of one-character strings,   *)
(* so that strip(), lower() and the substring test are computed.           *)
(***************************************************************************)
UpperChars == <<"A","B","C","D","E","F","G","H","I","J","K","L","M",
                "N","O","P","Q","R","S","T","U","V","W","X","Y","Z">>
LowerChars == <<"a","b","c","d","e","f","g","h","i","j","k","l","m",
                "n","o","p","q","r","s","t","u","v","w","x","y","z">>

LowerTable ==
    [c \in {UpperChars[i] : i \in 1..Len(UpperChars)} |->
        LowerChars[CHOOSE i \in 1..Len(UpperChars) : UpperChars[i] = c]]

\* str.lower() on one character
LowerChar(c) == IF c \in DOMAIN LowerTable THEN LowerTable[c] ELSE c

\* str.lower()
Lower(s) == [i \in 1..Len(s) |-> LowerChar(s[i])]

RECURSIVE LStrip(_)
LStrip(s) == IF s # <<>> /\ Head(s) = " " THEN LStrip(Tail(s)) ELSE s

RECURSIVE RStrip(_)
RStrip(s) ==
    IF s # <<>> /\ s[Len(s)] = " " THEN RStrip(SubSeq(s, 1, Len(s) - 1)) ELSE s

\* str.strip(): surrounding blanks removed
Strip(s) == RStrip(LStrip(s))

\* [c.lower() for c in list]
LowerAll(list) == [i \in 1..Len(list) |-> Lower(list[i])]

\* a in b, for strings
Contains(b, a) ==
    \E i \in 1..(Len(b) - Len(a) + 1) : SubSeq(b, i, i + Len(a) - 1) = a

\* x in list
InList(x, list) == \E i \in 1..Len(list) : list[i] = x

(***************************************************************************)
(* Settings store (main.py, load_settings / save_settings).                *)
(*                                                                         *)
(* A JSON value, and a value handed to save_settings, is a pair            *)
(* <<type, text>>; text is what str() renders.  A mapping is a function    *)
(* from keys to values.  The settings file is absent, or exists with       *)
(* content that cannot be read or parsed or is no JSON object ("bad"), or  *)
(* holds a JSON object ("ok", data).                                       *)
(***************************************************************************)
HomeDir == "/home/u"

StrVal(text) == <<"str", text>>
Text(v) == v[2]
\* str(value)
Str(v) == <<"str", v[2]>>

NoData == [k \in {} |-> StrVal("")]
AbsentFile == [state |-> "absent", data |-> NoData]
BadFile == [state |-> "bad", data |-> NoData]
OkFile(d) == [state |-> "ok", data |-> d]

\* {**a, **b}
Merge(a, b) ==
    [k \in DOMAIN a \cup DOMAIN b |-> IF k \in DOMAIN b THEN b[k] ELSE a[k]]

\* current[key] = value
DictSet(d, k, v) ==
    [j \in DOMAIN d \cup {k} |-> IF j = k THEN v ELSE d[j]]

defaults == [k \in {"last_input", "filter_mode"} |->
                IF k = "last_input" THEN StrVal(HomeDir) ELSE StrVal("All")]

\* open(SETTINGS_FILE) / json.load(f) / {**defaults, **...}: the mapping, or
\* an exception
ReadSettingsFile(file) ==
    IF file.state = "ok"
    THEN [raised |-> FALSE, value |-> Merge(defaults, file.data)]
    ELSE [raised |-> TRUE, value |-> defaults]

\* the failure of the read or of the merge reaches the caller
load_settings_nocatch(file) ==
    IF file.state = "absent" THEN [raised |-> FALSE, value |-> defaults]
    ELSE ReadSettingsFile(file)

\* load_settings(): what the caller gets (raised: an exception reached it)
load_settings(file) ==
    IF file.state # "absent"
    THEN LET r == ReadSettingsFile(file)
         IN  IF r.raised THEN [raised |-> FALSE, value |-> defaults]   \* except: pass
             ELSE r
    ELSE [raised |-> FALSE, value |-> defaults]

\* the key is written over the defaults, not over what the file holds
save_settings_fresh(file, key, value) ==
    LET current == DictSet(defaults, key, Str(value))
    IN  [file |-> OkFile(current), value |-> current]

\* save_settings(key, value): the file written and the mapping returned
save_settings(file, key, value) ==
    LET current == DictSet(load_settings(file).value, key, Str(value))
    IN  [file |-> OkFile(current), value |-> current]

(***************************************************************************)
(* Inference engine (monet_engine.py).                                     *)
(*                                                                         *)
(* A table (a DataFrame) is [headers, rows]: headers a sequence of texts,  *)
(* rows a sequence of rows, each a sequence of cells, one per header.  A   *)
(* cell is a number >= 0, or NonNumeric for text that is no number.        *)
(* Column positions count from 1 here and from 0 in the source.            *)
(***************************************************************************)
NonNumeric == -1
MinSamples == 3

NoneName == <<"N","o","n","e">>

track_candidates ==
    <<<<"T","r","a","j","e","c","t","o","r","y">>,
      <<"T","r","a","c","k"," ","I","D">>,
      <<"T","r","a","c","k","I","D">>,
      <<"T","r","a","c","k">>,
      <<"S","p","o","t"," ","I","D">>,
      <<"P","a","r","t","i","c","l","e"," ","I","D">>>>

frame_candidates ==
    <<<<"F","r","a","m","e">>,
      <<"F","r","a","m","e"," ","I","D">>,
      <<"S","l","i","c","e">>,
      <<"T","i","m","e">>,
      <<"t">>>>

x_candidates ==
    <<<<"x">>,
      <<"x","p","x">>,
      <<"P","o","s","i","t","i","o","n"," ","X">>,
      <<"X"," ","(","u","m",")">>,
      <<"X"," ","(","p","x",")">>>>

y_candidates ==
    <<<<"y">>,
      <<"y","p","x">>,
      <<"P","o","s","i","t","i","o","n"," ","Y">>,
      <<"Y"," ","(","u","m",")">>,
      <<"Y"," ","(","p","x",")">>>>

\* the names run_inference looks for when it locates the track-id column
writeback_track_names ==
    <<<<"t","r","a","j","e","c","t","o","r","y">>,
      <<"t","r","a","c","k"," ","i","d">>,
      <<"t","r","a","c","k","i","d">>,
      <<"t","r","a","c","k">>>>

labels_map == <<"Brownian", "FBM", "CTRW">>

MinOf(S) == CHOOSE i \in S : \A j \in S : i <= j
MaxOf(S) == CHOOSE i \in S : \A j \in S : i >= j

RECURSIVE SortedSeq(_)
\* the elements of a set of numbers, ascending
SortedSeq(S) == IF S = {} THEN <<>> ELSE <<MinOf(S)>> \o SortedSeq(S \ {MinOf(S)})

NotFound == [found |-> FALSE, name |-> NoneName, idx |-> 0]

FoundAt(columns, i) == [found |-> TRUE, name |-> columns[i], idx |-> i]

\* the two passes of _find_column over the lower-cased columns lcols
FirstMatch(columns, lcols, lc) ==
    IF \E i \in 1..Len(lcols) : InList(Strip(lcols[i]), lc)
    THEN FoundAt(columns, MinOf({i \in 1..Len(lcols) : InList(Strip(lcols[i]), lc)}))
    ELSE IF \E i \in 1..Len(lcols) : \E j \in 1..Len(lc) : Contains(lcols[i], lc[j])
    THEN FoundAt(columns, MinOf({i \in 1..Len(lcols) :
                                    \E j \in 1..Len(lc) : Contains(lcols[i], lc[j])}))
    ELSE NotFound

\* _find_column: exact match first, then substring match, each scanning the
\* columns left to right
find_column(columns, candidates) ==
    FirstMatch(columns, LowerAll(columns), LowerAll(candidates))

Msg(text) == [text |-> text, arg |-> "", a |-> <<>>, b |-> <<>>]

\* rows of the group of track id tid, as positions in rows
GroupOf(rows, col, tid) == {i \in 1..Len(rows) : rows[i][col] = tid}

\* the test of the time span is left out
GroupSurvives_nospan(rows, tcol, fcol, xcol, ycol, tid) ==
    LET g == GroupOf(rows, tcol, tid)
    IN  /\ ~(Cardinality(g) < MinSamples)
        /\ \A i \in g : rows[i][xcol] # NonNumeric /\ rows[i][ycol] # NonNumeric

\* the group survives: at least MinSamples samples, a time span that is not
\* zero, and x and y values that convert to float
GroupSurvives(rows, tcol, fcol, xcol, ycol, tid) ==
    LET g == GroupOf(rows, tcol, tid)
        t_raw == {rows[i][fcol] : i \in g}
    IN  /\ ~(Cardinality(g) < MinSamples \/ MaxOf(t_raw) - MinOf(t_raw) = 0)
        /\ \A i \in g : rows[i][xcol] # NonNumeric /\ rows[i][ycol] # NonNumeric

\* preprocess_trajectory, in three parts: the trimmed copy of the headers
\* (preprocess_trajectory), the column detection (Detect), the extraction of
\* the tracks (Extract).  raised: an exception left the function; ok: X_in
\* is not None; track_ids: ids_list; cols: the columns of the reference copy.
\* The resampled tensor itself only feeds the classifier, which is opaque.
PreResult(raised, ok, ids, cols, msg) ==
    [raised |-> raised, ok |-> ok, track_ids |-> ids, cols |-> cols, msg |-> msg]

\* the end of preprocess_trajectory, from ids_list on
Finish(ids_list, cols) ==
    IF ids_list = <<>>
    THEN PreResult(FALSE, FALSE, <<>>, cols, Msg("0 valid tracks found (check lengths)."))
    ELSE PreResult(FALSE, TRUE, ids_list, cols, Msg("Success"))

\* ids_list: the surviving track ids, in the order groupby visits them
Survivors(rows, tcol, fcol, xcol, ycol) ==
    LET Keep(tid) == GroupSurvives(rows, tcol, fcol, xcol, ycol, tid)
    IN  SelectSeq(SortedSeq({rows[i][tcol] : i \in 1..Len(rows)}), Keep)

Extract(rows, cols, track, frame, x, y) ==
    IF ~(track.found /\ frame.found /\ x.found /\ y.found)
    THEN PreResult(FALSE, FALSE, <<>>, cols,
                   [text |-> "Missing columns. Found:", arg |-> "",
                    a |-> track.name, b |-> frame.name])
    ELSE IF \E i \in 1..Len(rows) : rows[i][frame.idx] = NonNumeric
    THEN PreResult(TRUE, FALSE, <<>>, cols, Msg("could not convert string to float"))
    ELSE Finish(Survivors(rows, track.idx, frame.idx, x.idx, y.idx), cols)

StripAll(headers) == [i \in 1..Len(headers) |-> Strip(headers[i])]

Detect(rows, cols) ==
    Extract(rows, cols, find_column(cols, track_candidates),
            find_column(cols, frame_candidates), find_column(cols, x_candidates),
            find_column(cols, y_candidates))

preprocess_trajectory(df_raw) == Detect(df_raw.rows, StripAll(df_raw.headers))

EmptyDF == [headers |-> <<>>, rows |-> <<>>]

\* a return of run_inference: (filtered_df, count_orig, count_filt, msg);
\* present is "filtered_df is not None"
Result(present, df, orig, filt, msg) ==
    [present |-> present, df |-> df, count_orig |-> orig, count_filt |-> filt,
     msg |-> msg]

Failed(msg) == Result(FALSE, EmptyDF, 0, 0, msg)

\* steps 3-4 of run_inference: the results frame and its filter
Classify(track_ids, classifier) ==
    [i \in 1..Len(track_ids) |->
        [Trajectory |-> track_ids[i], MoNet_Label |-> labels_map[classifier[track_ids[i]]]]]

FilterResults(results, filter_type) ==
    IF filter_type # "All"
    THEN LET Match(r) == r.MoNet_Label = filter_type IN SelectSeq(results, Match)
    ELSE results

\* the write-back of run_inference (lines 121-150): the raw rows whose value
\* in the located track column is a valid id.  The integer coercion that
\* follows changes the representation of a column, not its values.
FilterRows(df_raw, col_idx, valid_ids) ==
    LET Valid(row) == row[col_idx] \in valid_ids
    IN  [headers |-> df_raw.headers, rows |-> SelectSeq(df_raw.rows, Valid)]

WriteBackAt(df_raw, named, results, original_count) ==
    IF named = {}
    THEN Failed(Msg("Error: "))                   \* next() raises StopIteration
    ELSE Result(TRUE,
                FilterRows(df_raw, MinOf(named),
                           {results[i].Trajectory : i \in 1..Len(results)}),
                original_count, Len(results), Msg("Success"))

WriteBack(df_raw, cols, results, original_count) ==
    WriteBackAt(df_raw,
                {i \in 1..Len(cols) : InList(Lower(Strip(cols[i])), writeback_track_names)},
                results, original_count)

\* steps 4-8 of run_inference, from the filtered results frame on
Select(df_raw, pp, results, filter_type) ==
    IF results = <<>>
    THEN Result(TRUE, EmptyDF, Len(pp.track_ids), 0,
                [text |-> "No tracks.", arg |-> filter_type, a |-> <<>>, b |-> <<>>])
    ELSE WriteBack(df_raw, pp.cols, results, Len(pp.track_ids))

\* run_inference from the result pp of preprocess_trajectory on
Infer(df_raw, pp, filter_type, model, classifier, predict_ok) ==
    IF pp.raised THEN Failed(Msg("Error: "))
    ELSE IF ~pp.ok THEN Failed(pp.msg)
    ELSE IF ~model THEN Failed(Msg("Model not loaded."))
    ELSE IF ~predict_ok THEN Failed(Msg("Error: "))
    ELSE Select(df_raw, pp, FilterResults(Classify(pp.track_ids, classifier), filter_type),
                filter_type)

\* run_inference(file_path, filter_type).  file is what read_csv finds at
\* file_path; model: self.model is not None; classifier: the label index
\* the loaded model gives a surviving track; predict_ok: predict returns.
run_inference(file, filter_type, model, classifier, predict_ok) ==
    IF file.kind = "unreadable" THEN Failed(Msg("Error: "))
    ELSE IF file.table.rows = <<>> \/ file.table.headers = <<>>
    THEN Failed(Msg("File is empty."))
    ELSE Infer(file.table, preprocess_trajectory(file.table), filter_type, model,
               classifier, predict_ok)

(***************************************************************************)
(* Values the variables of one specification keep while another runs.      *)
(***************************************************************************)
\* the placeholder "-" of a count cell, and "No files loaded."
NoCount == -1

AppParked ==
    /\ settings = defaults /\ inputVar = "" /\ filter_var = "All"
    /\ explain_text = "" /\ items = <<>> /\ tree = <<>> /\ lbl_count = NoCount
    /\ stop_flag = FALSE /\ run_btn = "normal" /\ stop_btn = "disabled"
    /\ log_text = <<>> /\ dialog = "" /\ engineModel = FALSE
    /\ modelExists = FALSE /\ workers = <<>> /\ outputs = {} /\ manifests = {}
    /\ used = [config |-> 0, faults |-> 0]

AppOnlyVars == <<settings, inputVar, filter_var, explain_text, items, tree,
                 lbl_count, stop_flag, run_btn, stop_btn, log_text, dialog,
                 engineModel, modelExists, workers, outputs, manifests, used>>

NoCall == [op |-> "none", key |-> "", arg |-> StrVal(""), before |-> AbsentFile,
           afterSave |-> FALSE, raised |-> FALSE, value |-> defaults]

NoInput == [layout |-> "", tracks |-> <<>>, frame_text |-> FALSE, filter_type |-> "All",
            model |-> FALSE, classifier |-> <<>>, predict_ok |-> FALSE]
NoOutput == [done |-> FALSE, res |-> Failed(Msg(""))]

(***************************************************************************)
(* Folder scanner (main.py, scan_folder).                                  *)
(*                                                                         *)
(* A file or directory name is a text (a sequence of characters); a        *)
(* relative path is the sequence of its parts.  Paths are ordered as       *)
(* pathlib orders them: part by part, each part by character code.         *)
(***************************************************************************)
\* the characters used in names, in the order of their codes
CharOrder == <<" ", "(", ")", ".", "0", "1", "2", "3", "4", "5", "6", "7", "8", "9">>
                 \o UpperChars \o <<"_">> \o LowerChars

Ord(c) == CHOOSE i \in 1..Len(CharOrder) : CharOrder[i] = c

RECURSIVE TextLess(_, _)
\* a < b, for texts
TextLess(a, b) ==
    IF b = <<>> THEN FALSE
    ELSE IF a = <<>> THEN TRUE
    ELSE IF Head(a) # Head(b) THEN Ord(Head(a)) < Ord(Head(b))
    ELSE TextLess(Tail(a), Tail(b))

RECURSIVE PathLess(_, _)
\* p < q, for relative paths
PathLess(p, q) ==
    IF q = <<>> THEN FALSE
    ELSE IF p = <<>> THEN TRUE
    ELSE IF Head(p) # Head(q) THEN TextLess(Head(p), Head(q))
    ELSE PathLess(Tail(p), Tail(q))

DotCsv == <<".", "c", "s", "v">>

\* f.lower().endswith(".csv")
IsCsv(f) ==
    Len(f) >= Len(DotCsv) /\ SubSeq(Lower(f), Len(f) - Len(DotCsv) + 1, Len(f)) = DotCsv

\* Path.stem: the name without its last suffix
Stem(f) ==
    LET dots == {i \in 2..Len(f) : f[i] = "."}
    IN  IF dots = {} \/ MaxOf(dots) = Len(f) THEN f ELSE SubSeq(f, 1, MaxOf(dots) - 1)

\* Path.parent of a relative path
RelParent(rel) == SubSeq(rel, 1, Len(rel) - 1)

\* the files os.walk finds under each folder, as relative paths.  A folder
\* that does not exist yields none.
X_csv == <<"x", ".", "c", "s", "v">>
Note_txt == <<"n", "o", "t", "e", ".", "t", "x", "t">>
Dir_a == <<"a">>

FolderA == "/data/A"
Folders == {FolderA, HomeDir}

Walk(folder) ==
    IF folder = FolderA THEN {<<X_csv>>, <<Dir_a, X_csv>>, <<Note_txt>>} ELSE {}

Item(folder, rel) ==
    [file_name |-> rel[Len(rel)], rel_path |-> rel,
     full_path |-> [root |-> folder, rel |-> rel]]

RECURSIVE SortedPaths(_)
\* sorted(..., key=rel_path)
SortedPaths(S) ==
    IF S = {} THEN <<>>
    ELSE LET least == CHOOSE p \in S : \A q \in S \ {p} : PathLess(p, q)
         IN  <<least>> \o SortedPaths(S \ {least})

CsvPaths(folder) == {rel \in Walk(folder) : IsCsv(rel[Len(rel)])}

scan_folder(folder) ==
    LET Build(paths) == [i \in 1..Len(paths) |-> Item(folder, paths[i])]
    IN  Build(SortedPaths(CsvPaths(folder)))

(***************************************************************************)
(* What the files hold, and what the loaded model answers.                 *)
(***************************************************************************)
LayoutPlain ==
    [headers |-> <<<<"T","r","a","j","e","c","t","o","r","y">>,
                   <<"F","r","a","m","e">>,
                   <<"x">>,
                   <<"y">>>>,
     roles |-> <<"tid", "frame", "x", "y">>]

\* the rows of a track of n samples on frames 0, 1, ..., in LayoutPlain
PlainRows(tid, n) == [k \in 1..n |-> <<tid, k - 1, k, k + 1>>]

\* /data/A/a/x.csv: two tracks of three samples; /data/A/x.csv: not a CSV
\* that read_csv can read
ContentOf(full_path) ==
    IF full_path.root = FolderA /\ full_path.rel = <<Dir_a, X_csv>>
    THEN [kind |-> "table",
          table |-> [headers |-> LayoutPlain.headers,
                     rows |-> PlainRows(1, 3) \o PlainRows(2, 3)]]
    ELSE [kind |-> "unreadable", table |-> EmptyDF]

\* the label index the model gives track 1 (FBM) and track 2 (CTRW)
AppClassifier == [t \in 1..2 |-> (t % 3) + 1]

(***************************************************************************)
(* The application (main.py, MoNetApp).                                    *)
(***************************************************************************)
\* the bounds of a behaviour: the runs started, the changes made on the Scan
\* and Settings tabs (Browse, a filter choice, a scan), and the operations
\* of the worker that fail (load_model, the output folder, predict, the
\* writing of an output file)
MaxRuns == 2
MaxConfig == 3
MaxFaults == 1

\* a change made on the Scan or Settings tab, within the bound
Config == used.config < MaxConfig /\ used' = [used EXCEPT !.config = used.config + 1]
\* an operation of the worker succeeds, or fails within the bound
Outcome(ok) ==
    IF ok THEN used' = used
    ELSE used.faults < MaxFaults /\ used' = [used EXCEPT !.faults = used.faults + 1]

motion_types == <<"All", "Brownian", "FBM", "CTRW">>
FilterTypes == {motion_types[i] : i \in 1..Len(motion_types)}

\* Path(p).parent and Path(p).name for the folders of the model
PathParent(p) ==
    CASE p = FolderA -> "/data" [] p = HomeDir -> "/home" [] OTHER -> "."
PathName(p) ==
    CASE p = FolderA -> "A" [] p = HomeDir -> "u" [] OTHER -> ""

\* input_root.parent / f"MoNet_{input_root.name}"
OutputRoot(input_root) ==
    [parent |-> PathParent(input_root), name |-> <<"MoNet_", PathName(input_root)>>]

\* output_root / rel_path.parent / f"{rel_path.stem}_{filter_mode}.csv"
OutputPath(input_root, rel_path, filter_mode) ==
    [root |-> OutputRoot(input_root), dir |-> RelParent(rel_path),
     name |-> [stem |-> Stem(rel_path[Len(rel_path)]), sep |-> "_",
               mode |-> filter_mode, ext |-> ".csv"]]

Explanation(mode) ==
    CASE mode = "All" -> "No filtering. All particle tracks will be saved."
      [] mode = "Brownian" -> "Normal Diffusion."
      [] mode = "FBM" -> "Fractional Brownian Motion."
      [] mode = "CTRW" -> "Continuous Time Random Walk."
      [] OTHER -> ""

Line(text, file) == [text |-> text, file |-> file]

Row(name, status, total, filtered) ==
    [name |-> name, status |-> status, total |-> total, filtered |-> filtered]

\* every row showing filename is rewritten: the loop does not break
update_row_all(rows, filename, status, total, filtered) ==
    [i \in 1..Len(rows) |->
        IF rows[i].name = filename THEN Row(filename, status, total, filtered)
        ELSE rows[i]]

\* _update_row: the first row showing filename is rewritten
update_row(rows, filename, status, total, filtered) ==
    LET hits == {i \in 1..Len(rows) : rows[i].name = filename}
    IN  IF hits = {} THEN rows
        ELSE [rows EXCEPT ![MinOf(hits)] = Row(filename, status, total, filtered)]

\* the settings files the application may find when it starts
InitialSettingsFiles ==
    {AbsentFile, BadFile,
     OkFile([k \in {"last_input", "filter_mode"} |->
                IF k = "last_input" THEN StrVal(FolderA) ELSE StrVal("FBM")]),
     OkFile([k \in {"last_input", "filter_mode"} |->
                IF k = "last_input" THEN StrVal("") ELSE StrVal("Bogus")])}

\* a worker thread as _run_batch starts it.  input_root and filter_mode are
\* the locals of _run_batch it closes over; list is the list its loop
\* iterates and idx the position of the loop in it; started counts the
\* iterations that passed the stop check; calls records the calls of
\* run_inference; stopAt is started when Stop was pressed (NoCount: never);
\* fatal: the model or the output folder failed; report: the final dialog.
NewWorker(input_root, filter_mode) ==
    [pc |-> "load", input_root |-> input_root, filter_mode |-> filter_mode,
     list |-> <<>>, idx |-> 0, started |-> 0, calls |-> <<>>, stopAt |-> NoCount,
     fatal |-> FALSE, report |-> ""]

\* MoNetApp.__init__
Init ==
    /\ \E f0 \in InitialSettingsFiles :
         /\ settings = load_settings(f0).value
         /\ inputVar = Text(load_settings(f0).value["last_input"])
         /\ filter_var = Text(load_settings(f0).value["filter_mode"])
         \* _update_explanation()
         /\ settingsFile =
              save_settings(f0, "filter_mode",
                            StrVal(Text(load_settings(f0).value["filter_mode"]))).file
         /\ explain_text = Explanation(Text(load_settings(f0).value["filter_mode"]))
    /\ items = <<>> /\ tree = <<>> /\ lbl_count = NoCount
    /\ stop_flag = FALSE /\ run_btn = "normal" /\ stop_btn = "disabled"
    /\ log_text = <<>> /\ dialog = "" /\ engineModel = FALSE
    /\ modelExists \in BOOLEAN
    /\ workers = <<>> /\ outputs = {} /\ manifests = {}
    /\ used = [config |-> 0, faults |-> 0]
    /\ sCall = NoCall /\ eIn = NoInput /\ eOut = NoOutput

\* _browse, with the folder p picked in the dialog
Browse(p) ==
    /\ Config
    /\ inputVar' = p
    /\ settingsFile' = save_settings(settingsFile, "last_input", StrVal(p)).file
    /\ UNCHANGED <<settings, filter_var, explain_text, items, tree, lbl_count,
                   stop_flag, run_btn, stop_btn, log_text, engineModel,
                   modelExists, workers, outputs, manifests, sCall, eIn, eOut>>
    /\ dialog' = ""

\* a radio button of the Settings tab: filter_var is set, then
\* _update_explanation runs
SelectFilter(m) ==
    /\ Config
    /\ filter_var' = m
    /\ settingsFile' = save_settings(settingsFile, "filter_mode", StrVal(m)).file
    /\ explain_text' = Explanation(m)
    /\ UNCHANGED <<settings, inputVar, items, tree, lbl_count, stop_flag, run_btn,
                   stop_btn, log_text, engineModel, modelExists, workers,
                   outputs, manifests, sCall, eIn, eOut>>
    /\ dialog' = ""

PendingRows(list) ==
    [i \in 1..Len(list) |-> Row(list[i].file_name, "Pending", NoCount, NoCount)]

\* _scan
Scan ==
    /\ IF inputVar = ""
       THEN /\ dialog' = "Select Input Folder first."
            /\ UNCHANGED <<items, tree, lbl_count, used>>
       ELSE /\ Config
            /\ items' = scan_folder(inputVar)
            /\ tree' = PendingRows(scan_folder(inputVar))
            /\ lbl_count' = Len(scan_folder(inputVar))
            /\ dialog' = "Scan"
    /\ UNCHANGED <<settingsFile, settings, inputVar, filter_var, explain_text,
                   stop_flag, run_btn, stop_btn, log_text, engineModel, modelExists,
                   workers, outputs, manifests, sCall, eIn, eOut>>

\* _stop_batch
StopBatch ==
    /\ stop_btn = "normal"
    /\ stop_flag' = TRUE
    /\ log_text' = Append(log_text, Line("Stopping requested... Finishing current file...", <<>>))
    /\ stop_btn' = "disabled"
    /\ workers' = [i \in 1..Len(workers) |->
                     IF workers[i].pc \in {"load", "setup", "check", "mark", "process"}
                        /\ workers[i].stopAt = NoCount
                     THEN [workers[i] EXCEPT !.stopAt = workers[i].started]
                     ELSE workers[i]]
    /\ UNCHANGED <<settingsFile, settings, inputVar, filter_var, explain_text, items,
                   tree, lbl_count, run_btn, engineModel, modelExists,
                   outputs, manifests, used, sCall, eIn, eOut>>
    /\ dialog' = ""

StartRun ==
    /\ stop_flag' = FALSE
    /\ run_btn' = "disabled"
    /\ stop_btn' = "normal"
    /\ log_text' = <<>>
    /\ workers' = Append(workers, NewWorker(inputVar, filter_var))
    /\ dialog' = ""

\* the stop flag is cleared before the model and the items are looked at
RunBatch_reset ==
    /\ run_btn = "normal"
    /\ IF ~modelExists
       THEN /\ dialog' = "Model missing"
            /\ stop_flag' = FALSE
            /\ UNCHANGED <<run_btn, stop_btn, log_text, workers>>
       ELSE IF items = <<>>
       THEN /\ dialog' = "Scan files first."
            /\ stop_flag' = FALSE
            /\ UNCHANGED <<run_btn, stop_btn, log_text, workers>>
       ELSE Len(workers) < MaxRuns /\ StartRun
    /\ UNCHANGED <<settingsFile, settings, inputVar, filter_var, explain_text, items,
                   tree, lbl_count, engineModel, modelExists, outputs, manifests,
                   used, sCall, eIn, eOut>>

\* _run_batch, up to the start of the worker thread
RunBatch ==
    /\ run_btn = "normal"
    /\ IF ~modelExists
       THEN /\ dialog' = "Model missing"
            /\ UNCHANGED <<stop_flag, run_btn, stop_btn, log_text, workers>>
       ELSE IF items = <<>>
       THEN /\ dialog' = "Scan files first."
            /\ UNCHANGED <<stop_flag, run_btn, stop_btn, log_text, workers>>
       ELSE Len(workers) < MaxRuns /\ StartRun
    /\ UNCHANGED <<settingsFile, settings, inputVar, filter_var, explain_text, items,
                   tree, lbl_count, engineModel, modelExists, outputs, manifests,
                   used, sCall, eIn, eOut>>

(***************************************************************************)
(* The worker thread of _run_batch (worker), one action per step.  Between *)
(* two steps the interface thread may run any handler.                     *)
(***************************************************************************)
WorkerFrame == <<settingsFile, settings, inputVar, filter_var, explain_text, items,
                 lbl_count, stop_flag, modelExists, sCall, eIn, eOut>>

\* lines 203-210: the banner and load_model, which loads the model or fails
WLoad(i) ==
    /\ workers[i].pc = "load"
    /\ \E ok \in BOOLEAN :
         /\ Outcome(ok)
         /\ IF ok
            THEN
              /\ engineModel' = TRUE
              /\ log_text' = log_text \o <<Line("Starting Batch Analysis...", <<>>),
                                            Line("Loading Model", <<>>)>>
              /\ workers' = [workers EXCEPT ![i].pc = "setup"]
            ELSE
              /\ engineModel' = engineModel
              /\ log_text' = log_text \o <<Line("Starting Batch Analysis...", <<>>),
                                            Line("Loading Model", <<>>),
                                            Line("CRITICAL ERROR", <<>>)>>
              /\ workers' = [workers EXCEPT ![i].pc = "reset1", ![i].fatal = TRUE]
    /\ UNCHANGED <<WorkerFrame, tree, run_btn, stop_btn, outputs, manifests>>
    /\ dialog' = ""

\* the loop is entered although the output folder failed
WSetup_continue(i) ==
    /\ workers[i].pc = "setup"
    /\ \E ok \in BOOLEAN :
         /\ Outcome(ok)
         /\ IF ok
            THEN
              /\ manifests' =
                   {m \in manifests : m.root # OutputRoot(workers[i].input_root)}
                   \cup {[root |-> OutputRoot(workers[i].input_root),
                          source |-> workers[i].input_root,
                          filter |-> workers[i].filter_mode]}
              /\ log_text' = Append(log_text, Line("Creating Output Folder", <<>>))
              /\ workers' = [workers EXCEPT ![i].pc = "check", ![i].list = items,
                                            ![i].idx = 1]
            ELSE
              /\ manifests' = manifests
              /\ log_text' = log_text \o <<Line("Creating Output Folder", <<>>),
                                            Line("Error creating folder", <<>>)>>
              /\ workers' = [workers EXCEPT ![i].pc = "check", ![i].list = items,
                                            ![i].idx = 1, ![i].fatal = TRUE]
    /\ UNCHANGED <<WorkerFrame, tree, run_btn, stop_btn, engineModel, outputs>>
    /\ dialog' = ""

\* lines 212-222: the output folder and processing_info.txt, which succeed or
\* fail, then the loop takes the list self.items names at that moment
WSetup(i) ==
    /\ workers[i].pc = "setup"
    /\ \E ok \in BOOLEAN :
         /\ Outcome(ok)
         /\ IF ok
            THEN
              /\ manifests' =
                   {m \in manifests : m.root # OutputRoot(workers[i].input_root)}
                   \cup {[root |-> OutputRoot(workers[i].input_root),
                          source |-> workers[i].input_root,
                          filter |-> workers[i].filter_mode]}
              /\ log_text' = Append(log_text, Line("Creating Output Folder", <<>>))
              /\ workers' = [workers EXCEPT ![i].pc = "check", ![i].list = items,
                                            ![i].idx = 1]
            ELSE
              /\ manifests' = manifests
              /\ log_text' = log_text \o <<Line("Creating Output Folder", <<>>),
                                            Line("Error creating folder", <<>>)>>
              /\ workers' = [workers EXCEPT ![i].pc = "reset1", ![i].fatal = TRUE]
    /\ UNCHANGED <<WorkerFrame, tree, run_btn, stop_btn, engineModel, outputs>>
    /\ dialog' = ""

\* lines 222-226: the top of a loop iteration
WCheck(i) ==
    /\ workers[i].pc = "check"
    /\ IF workers[i].idx > Len(workers[i].list)
       THEN /\ workers' = [workers EXCEPT ![i].pc = "after"]
            /\ UNCHANGED log_text
       ELSE IF stop_flag
       THEN /\ workers' = [workers EXCEPT ![i].pc = "after"]
            /\ log_text' = Append(log_text, Line("Batch processing stopped by user.", <<>>))
       ELSE /\ workers' = [workers EXCEPT ![i].pc = "mark",
                                          ![i].started = workers[i].started + 1]
            /\ UNCHANGED log_text
    /\ UNCHANGED <<used, WorkerFrame, tree, run_btn, stop_btn, engineModel, outputs,
                   manifests>>
    /\ dialog' = ""

\* lines 228-230
WMark(i) ==
    /\ workers[i].pc = "mark"
    /\ tree' = update_row(tree, workers[i].list[workers[i].idx].file_name,
                          "Running...", NoCount, NoCount)
    /\ log_text' = Append(log_text,
                          Line("Processing", workers[i].list[workers[i].idx].file_name))
    /\ workers' = [workers EXCEPT ![i].pc = "process"]
    /\ UNCHANGED <<used, WorkerFrame, run_btn, stop_btn, engineModel, outputs,
                   manifests>>
    /\ dialog' = ""

\* the record of one call of run_inference and of what the worker did with
\* its result: status is the status it gave a row ("": none)
Call(path, res, wrote, status) ==
    [path |-> path, present |-> res.present, count_orig |-> res.count_orig,
     count_filt |-> res.count_filt, wrote |-> wrote, status |-> status]

\* the worker goes on to the next item of its loop
Continue(i, call) ==
    workers' = [workers EXCEPT ![i].pc = "check", ![i].idx = workers[i].idx + 1,
                               ![i].calls = Append(workers[i].calls, call)]

\* an absent result sends the worker back to the same item once
Handle_retry(i, item, res, write_ok) ==
    IF ~res.present
    THEN /\ log_text' = Append(log_text, Line("Failed", item.file_name))
         /\ tree' = update_row(tree, item.file_name, "Error", 0, 0)
         /\ IF Len(workers[i].calls) < workers[i].idx
            THEN workers' = [workers EXCEPT
                                ![i].pc = "mark",
                                ![i].calls = Append(workers[i].calls,
                                                    Call(item.full_path, res, FALSE,
                                                         "Error"))]
            ELSE Continue(i, Call(item.full_path, res, FALSE, "Error"))
         /\ UNCHANGED outputs
    ELSE /\ outputs' = outputs \cup {OutputPath(workers[i].input_root, item.rel_path,
                                                workers[i].filter_mode)}
         /\ log_text' = Append(log_text, Line("tracks kept", item.file_name))
         /\ tree' = update_row(tree, item.file_name, "Done", res.count_orig,
                               res.count_filt)
         /\ Continue(i, Call(item.full_path, res, TRUE, "Done"))

\* lines 235-246 for the result res of run_inference on item; write_ok: mkdir
\* and to_csv succeed
Handle(i, item, res, write_ok) ==
    IF ~res.present
    THEN /\ log_text' = Append(log_text, Line("Failed", item.file_name))
         /\ tree' = update_row(tree, item.file_name, "Error", 0, 0)
         /\ Continue(i, Call(item.full_path, res, FALSE, "Error"))
         /\ UNCHANGED outputs
    ELSE IF write_ok
    THEN /\ outputs' = outputs \cup {OutputPath(workers[i].input_root, item.rel_path,
                                                workers[i].filter_mode)}
         /\ log_text' = Append(log_text, Line("tracks kept", item.file_name))
         /\ tree' = update_row(tree, item.file_name, "Done", res.count_orig,
                               res.count_filt)
         /\ Continue(i, Call(item.full_path, res, TRUE, "Done"))
    ELSE \* mkdir or to_csv raises: the exception ends the thread
         /\ workers' = [workers EXCEPT
                           ![i].pc = "crashed",
                           ![i].calls = Append(workers[i].calls,
                                               Call(item.full_path, res, FALSE, ""))]
         /\ UNCHANGED <<outputs, log_text, tree>>

\* lines 233-246: run_inference on the item, whose prediction succeeds or
\* fails, then the handling of its result
WProcess(i) ==
    /\ workers[i].pc = "process"
    /\ \E predict_ok \in BOOLEAN, write_ok \in BOOLEAN :
         /\ Outcome(predict_ok /\ write_ok)
         /\ Handle(i, workers[i].list[workers[i].idx],
                   run_inference(ContentOf(workers[i].list[workers[i].idx].full_path),
                                 workers[i].filter_mode, engineModel, AppClassifier,
                                 predict_ok),
                   write_ok)
    /\ UNCHANGED <<WorkerFrame, run_btn, stop_btn, engineModel, manifests>>
    /\ dialog' = ""

\* lines 248-252
WAfter(i) ==
    /\ workers[i].pc = "after"
    /\ IF ~stop_flag
       THEN /\ log_text' = Append(log_text, Line("--- Batch Complete ---", <<>>))
            /\ dialog' = "Done"
            /\ workers' = [workers EXCEPT ![i].pc = "reset1", ![i].report = "Done"]
       ELSE /\ UNCHANGED log_text
            /\ dialog' = "Stopped"
            /\ workers' = [workers EXCEPT ![i].pc = "reset1", ![i].report = "Stopped"]
    /\ UNCHANGED <<used, WorkerFrame, tree, run_btn, stop_btn, engineModel, outputs, manifests>>

\* _reset_buttons, line 260
WReset1(i) ==
    /\ workers[i].pc = "reset1"
    /\ run_btn' = "normal"
    /\ workers' = [workers EXCEPT ![i].pc = "reset2"]
    /\ UNCHANGED <<used, WorkerFrame, tree, stop_btn, log_text, engineModel, outputs,
                   manifests>>
    /\ dialog' = ""

\* _reset_buttons, line 261, and the end of the thread, whose locals go
WReset2(i) ==
    /\ workers[i].pc = "reset2"
    /\ stop_btn' = "disabled"
    /\ workers' = [workers EXCEPT ![i] = [NewWorker("", "") EXCEPT !.pc = "done"]]
    /\ UNCHANGED <<used, WorkerFrame, tree, run_btn, log_text, engineModel, outputs,
                   manifests>>
    /\ dialog' = ""

Next ==
    \/ \E p \in Folders : Browse(p)
    \/ \E m \in FilterTypes : SelectFilter(m)
    \/ Scan
    \/ RunBatch
    \/ StopBatch
    \/ \E i \in 1..Len(workers) : WLoad(i)
    \/ \E i \in 1..Len(workers) : WSetup(i)
    \/ \E i \in 1..Len(workers) : WCheck(i)
    \/ \E i \in 1..Len(workers) : WMark(i)
    \/ \E i \in 1..Len(workers) : WProcess(i)
    \/ \E i \in 1..Len(workers) : WAfter(i)
    \/ \E i \in 1..Len(workers) : WReset1(i)
    \/ \E i \in 1..Len(workers) : WReset2(i)

Spec == Init /\ [][Next]_vars

(***************************************************************************)
(* Properties of the application.                                          *)
(***************************************************************************)
Workers == 1..Len(workers)
CallsOf(i) == 1..Len(workers[i].calls)

\* C1: for every file the worker has handled, an output CSV was written if
\* and only if run_inference reported a filtered count above zero, and a
\* present result with a filtered count of zero was given the status
\* "Skipped (0)".
C1_OutputIffFiltered ==
    \A i \in Workers : \A k \in CallsOf(i) :
        workers[i].calls[k].status # "" =>
            /\ workers[i].calls[k].wrote <=> workers[i].calls[k].count_filt > 0
            /\ workers[i].calls[k].present /\ workers[i].calls[k].count_filt = 0
                   => workers[i].calls[k].status = "Skipped (0)"

\* C2: once Stop has been requested during a run, no further file is
\* started, and when the worker has left its loop every file it started has
\* been given a terminal status.
C2_CooperativeStop ==
    \A i \in Workers :
        workers[i].stopAt # NoCount =>
            /\ workers[i].started <= workers[i].stopAt
            /\ workers[i].pc \notin {"load", "setup", "check", "mark", "process"}
                   => /\ Len(workers[i].calls) = workers[i].started
                      /\ \A k \in CallsOf(i) :
                             workers[i].calls[k].status \in {"Error", "Done", "Skipped (0)"}

\* C3: when every worker thread that was started has ended, the controls are
\* idle: Run enabled and Stop disabled.
C3_ControlsRestored ==
    (workers # <<>> /\ \A i \in Workers : workers[i].pc \in {"done", "crashed"})
        => run_btn = "normal" /\ stop_btn = "disabled"

\* C4 as stated: the step that handles an absent result leaves the row of that
\* file, the row at the file's position in the scan order, at "Error" with
\* both counts 0.
C4_ErrorOnOwnRow ==
    [][\A i \in Workers :
          (Len(workers'[i].calls) = Len(workers[i].calls) + 1
           /\ ~workers'[i].calls[Len(workers'[i].calls)].present)
              => /\ workers[i].idx <= Len(tree')
                 /\ tree'[workers[i].idx] =
                        Row(workers[i].list[workers[i].idx].file_name, "Error", 0, 0)]_vars

\* the first row of table t that shows name (0: none)
FirstRowOf(t, name) ==
    IF \E r \in 1..Len(t) : t[r].name = name
    THEN MinOf({r \in 1..Len(t) : t[r].name = name})
    ELSE 0

\* C4: the step that handles an absent result leaves the first row showing
\* that file's name, if there is one, at "Error" with both counts 0 and every
\* other row as it was, writes no output, and moves the worker on to the next
\* item of its list; the k-th call of run_inference in a run is for the k-th
\* item, so no item is passed to it twice.
C4_AbsentResultHandled ==
    [][\A i \in Workers :
          Len(workers'[i].calls) = Len(workers[i].calls) + 1 =>
              /\ Len(workers'[i].calls) = workers[i].idx
              /\ workers'[i].calls[workers[i].idx].path =
                     workers[i].list[workers[i].idx].full_path
              /\ ~workers'[i].calls[workers[i].idx].present =>
                     /\ outputs' = outputs
                     /\ workers'[i].pc = "check"
                     /\ workers'[i].idx = workers[i].idx + 1
                     /\ Len(tree') = Len(tree)
                     /\ \A r \in 1..Len(tree) :
                            tree'[r] =
                                IF r = FirstRowOf(tree, workers[i].list[workers[i].idx].file_name)
                                THEN Row(tree[r].name, "Error", 0, 0)
                                ELSE tree[r]]_vars

\* a worker has handled the absent result of the second of two files of one
\* name: the first row shows the error and the second is still pending
C4_Witness ==
    \E i \in Workers :
        /\ Len(workers[i].calls) = 2
        /\ ~workers[i].calls[2].present
        /\ workers[i].pc = "check"
        /\ Len(tree) = 2
        /\ tree[1] = Row(tree[2].name, "Error", 0, 0)
        /\ tree[2].status = "Pending"

\* C5: a worker whose model or output folder failed starts no item and calls
\* run_inference for none, so that it changes no row and writes no output;
\* it goes straight to _reset_buttons, and at its end Stop is disabled and,
\* unless a later run has been started meanwhile, Run is enabled.
C5_FatalSetupStopsRun ==
    [][\A i \in Workers :
          /\ workers'[i].fatal =>
                 /\ workers'[i].started = 0
                 /\ workers'[i].calls = <<>>
                 /\ workers'[i].pc \in {"reset1", "reset2"}
          /\ workers[i].fatal /\ workers'[i].pc # workers[i].pc =>
                 /\ tree' = tree
                 /\ outputs' = outputs
                 /\ workers'[i].pc = "done" =>
                        /\ stop_btn' = "disabled"
                        /\ i = Len(workers') => run_btn' = "normal"]_vars

\* the output folder of a run failed after its model was loaded: every row is
\* pending and Run is enabled again
C5_Witness ==
    \E i \in Workers :
        /\ workers[i].fatal
        /\ workers[i].pc = "reset2"
        /\ engineModel
        /\ run_btn = "normal"
        /\ tree # <<>>
        /\ \A r \in 1..Len(tree) : tree[r].status = "Pending"

ConfigErrors == {"Model missing", "Scan files first.", "Select Input Folder first."}

\* C6: a step that shows a configuration error (Run without the model file or
\* without scanned items, Scan without an input folder) changes neither the
\* stop flag, nor a control, nor the item list, nor the table, nor the log,
\* nor the settings file, nor the workers.
C6_ConfigErrorMutatesNothing ==
    [][dialog' \in ConfigErrors =>
          UNCHANGED <<stop_flag, run_btn, stop_btn, items, tree, lbl_count, log_text,
                      settingsFile, workers, outputs, manifests>>]_vars

\* Run has been refused for want of scanned items after a run that was stopped
C6_Witness ==
    /\ dialog = "Scan files first."
    /\ stop_flag
    /\ workers # <<>>
    /\ log_text # <<>>

\* C7: the filter mode shown, the one in the settings file and the one of
\* every worker are among All, Brownian, FBM, CTRW.
C7_FilterModeEnumerated ==
    /\ filter_var \in FilterTypes
    /\ Text(load_settings(settingsFile).value["filter_mode"]) \in FilterTypes
    /\ \A i \in Workers : workers[i].pc # "done" => workers[i].filter_mode \in FilterTypes

\* the worker has left its loop without a stop request and without a crash
RanToEnd(i) ==
    /\ workers[i].pc \in {"reset1", "reset2"}
    /\ workers[i].report = "Done"
    /\ workers[i].stopAt = NoCount

\* the output path of the k-th item of worker i
OutputOf(i, k) ==
    OutputPath(workers[i].input_root, workers[i].list[k].rel_path, workers[i].filter_mode)

\* C13: after a run that was not stopped, the CSVs under its output root are
\* exactly the output paths of the scanned files for which run_inference
\* reported a filtered count above zero, and two scanned files have
\* different output paths.
C13_OneOutputPerMatchingFile ==
    \A i \in Workers :
        RanToEnd(i) =>
            /\ {o \in outputs : o.root = OutputRoot(workers[i].input_root)}
                   = {OutputOf(i, k) : k \in {j \in CallsOf(i) : workers[i].calls[j].count_filt > 0}}
            /\ \A j, k \in 1..Len(workers[i].list) : j # k => OutputOf(i, j) # OutputOf(i, k)

\* the worker threads that have been started and have not ended
Alive == {i \in Workers : workers[i].pc \notin {"done", "crashed"}}

\* C15: at most one worker thread exists at a time.
C15_AtMostOneWorker == Cardinality(Alive) <= 1

TerminalStatuses == {"Done", "Error", "Skipped (0)"}

\* worker i takes the step that marks its item running, or the step that
\* gives its item a terminal status
MarkStep(i) == workers[i].pc = "mark" /\ workers'[i].pc = "process"
TerminalStep(i) ==
    /\ Len(workers'[i].calls) = Len(workers[i].calls) + 1
    /\ workers'[i].pc # "crashed"

\* table t with the status of row r replaced (its counts are left open)
SameButStatus(t, u, r, statuses) ==
    /\ Len(u) = Len(t)
    /\ \A q \in 1..Len(t) :
           IF q = r THEN u[q].name = t[q].name /\ u[q].status \in statuses
           ELSE u[q] = t[q]

LoopLeft(i) == workers[i].pc \in {"after", "crashed"}

\* C18: a run that reached its loop and during which Stop was not requested
\* found the stop flag false at every iteration, so that when it leaves the
\* loop every item of the scan list has been through an iteration of its
\* own and has been handled there.
C18_RunWithoutStopProcessesAll ==
    \A i \in Workers :
        (LoopLeft(i) /\ workers[i].stopAt = NoCount) =>
            /\ workers[i].started = Len(workers[i].list)
            /\ Len(workers[i].calls) = Len(workers[i].list)
            /\ \A k \in CallsOf(i) :
                   /\ workers[i].calls[k].path = workers[i].list[k].full_path
                   /\ workers[i].calls[k].status \in TerminalStatuses

\* worker w is in its loop, or has just left it
InLoop(w) == w.pc \in {"check", "mark", "process", "after"}

\* processing_info.txt of the run of worker w records its root and its mode
ManifestOf(w) ==
    [root |-> OutputRoot(w.input_root), source |-> w.input_root,
     filter |-> w.filter_mode]

\* C19: a run works on the state of the moment Run was pressed: the scan list
\* is not replaced between that moment and the moment the loop takes it,
\* every item of the loop lies under the input root the run's
\* processing_info.txt records as Source, and that file records the run's
\* filter mode.
C19_ConsistentSnapshot ==
    [][/\ \A i \in 1..Len(workers) :
             workers[i].pc \in {"load", "setup"} => items' = items
       /\ \A i \in 1..Len(workers') :
             InLoop(workers'[i]) =>
                 /\ ManifestOf(workers'[i]) \in manifests'
                 /\ \A k \in 1..Len(workers'[i].list) :
                        workers'[i].list[k].full_path.root = workers'[i].input_root]_vars

\* worker i has shown the dialog that ends its loop
Reported(i) == workers[i].pc = "reset1" /\ ~workers[i].fatal

Banner == Line("--- Batch Complete ---", <<>>)

\* C20: the dialog "Stopped" is shown only when the loop ended on a stop
\* check with an item of its list not yet handled, and when every item was
\* handled the completion banner is logged and the dialog "Done" is shown,
\* whenever Stop was pressed.
C20_ReportMatchesRun ==
    \A i \in Workers :
        Reported(i) =>
            /\ workers[i].report = "Stopped" =>
                   Len(workers[i].calls) < Len(workers[i].list)
            /\ Len(workers[i].calls) = Len(workers[i].list) =>
                   /\ workers[i].report = "Done"
                   /\ \E l \in 1..Len(log_text) : log_text[l] = Banner

(***************************************************************************)
(* SpecSettings: the settings store called with any key and value on any   *)
(* settings file.                                                          *)
(***************************************************************************)
SettingsKeys == {"last_input", "filter_mode", "theme"}

\* what a stored key may hold, and what save_settings may be handed
SettingsValues == {StrVal("FBM"), StrVal("/data/A"), <<"num", "5">>, <<"path", "/data/A">>}

\* every mapping from some of the keys to a value
SettingsData ==
    UNION {[K -> SettingsValues] : K \in SUBSET SettingsKeys}

SettingsFiles == {AbsentFile, BadFile} \cup {OkFile(d) : d \in SettingsData}

SettingsInit ==
    /\ settingsFile \in SettingsFiles
    /\ sCall = NoCall
    /\ AppParked
    /\ eIn = NoInput /\ eOut = NoOutput

\* a call save_settings(k, v)
SSave(k, v) ==
    LET r == save_settings(settingsFile, k, v)
    IN  /\ settingsFile' = r.file
        /\ sCall' = [op |-> "save", key |-> k, arg |-> v, before |-> settingsFile,
                     afterSave |-> FALSE, raised |-> FALSE, value |-> r.value]
        /\ UNCHANGED <<AppOnlyVars, eIn, eOut>>

\* a call load_settings(); key, arg and before keep the save it follows
SLoad ==
    LET r == load_settings(settingsFile)
    IN  /\ sCall' = [sCall EXCEPT !.op = "load", !.afterSave = (sCall.op = "save"),
                                  !.raised = r.raised, !.value = r.value]
        /\ UNCHANGED <<settingsFile, AppOnlyVars, eIn, eOut>>

SettingsNext ==
    \/ \E k \in SettingsKeys, v \in SettingsValues : SSave(k, v)
    \/ SLoad

SpecSettings == SettingsInit /\ [][SettingsNext]_vars

\* C8: a load() that follows save(k, v) on parseable stored settings returns
\* a mapping in which k holds str(v) and every other key stored before the
\* save holds the value it had
C8_SaveLoadRoundTrip ==
    (sCall.op = "load" /\ sCall.afterSave /\ sCall.before.state = "ok") =>
        /\ ~sCall.raised
        /\ sCall.key \in DOMAIN sCall.value
        /\ sCall.value[sCall.key] = Str(sCall.arg)
        /\ \A j \in DOMAIN sCall.before.data \ {sCall.key} :
               j \in DOMAIN sCall.value /\ sCall.value[j] = sCall.before.data[j]

\* a load after saving a Path under last_input over a file that held an
\* unrecognized key and a numeric filter_mode
C8_Witness ==
    /\ sCall.op = "load" /\ sCall.afterSave /\ sCall.before.state = "ok"
    /\ sCall.key = "last_input" /\ sCall.arg = <<"path", "/data/A">>
    /\ DOMAIN sCall.before.data = {"theme", "filter_mode", "last_input"}
    /\ sCall.before.data["filter_mode"] = <<"num", "5">>

\* C9: load() on an absent file, or on one that cannot be read or parsed or
\* holds no JSON object, raises nothing and returns exactly the defaults
C9_LoadNeverFails ==
    (sCall.op = "load" /\ settingsFile.state \in {"absent", "bad"}) =>
        /\ ~sCall.raised
        /\ DOMAIN sCall.value = {"last_input", "filter_mode"}
        /\ sCall.value["last_input"] = StrVal(HomeDir)
        /\ sCall.value["filter_mode"] = StrVal("All")

C9_Witness == sCall.op = "load" /\ settingsFile.state = "bad"

(***************************************************************************)
(* SpecEngine: run_inference on bounded input files.  An input table is    *)
(* built from a header layout and a list of tracks; roles says which value *)
(* of a sample each column of the layout holds.                            *)
(***************************************************************************)
MaxTracks == 2
MaxSamples == 3

LayoutSpot ==
    [headers |-> <<<<"S","p","o","t"," ","I","D">>,
                   <<" ","F","r","a","m","e"," ">>,
                   <<" ","P","o","s","i","t","i","o","n"," ","X">>,
                   <<" ","P","o","s","i","t","i","o","n"," ","Y">>>>,
     roles |-> <<"tid", "frame", "x", "y">>]

LayoutPadded ==
    [headers |-> <<<<" ","T","r","a","c","k"," ","I","D"," ">>,
                   <<"T","i","m","e">>,
                   <<"X"," ","(","u","m",")">>,
                   <<"Y"," ","(","u","m",")">>,
                   <<"Q","u","a","l","i","t","y">>>>,
     roles |-> <<"tid", "frame", "x", "y", "other">>]

LayoutSubstring ==
    [headers |-> <<<<"t","r","a","c","k","_","n","o">>,
                   <<"S","l","i","c","e">>,
                   <<"x","p","x">>,
                   <<"y","p","x">>>>,
     roles |-> <<"tid", "frame", "x", "y">>]

LayoutNoY ==
    [headers |-> <<<<"T","r","a","c","k","I","D">>,
                   <<"F","r","a","m","e">>,
                   <<"x">>>>,
     roles |-> <<"tid", "frame", "x">>]

LayoutTrajNoY ==
    [headers |-> <<<<"T","r","a","j","e","c","t","o","r","y">>,
                   <<"F","r","a","m","e">>,
                   <<"x">>>>,
     roles |-> <<"tid", "frame", "x">>]

LayoutTwoIds ==
    [headers |-> <<<<"P","a","r","t","i","c","l","e"," ","I","D">>,
                   <<"T","r","a","c","k">>,
                   <<"F","r","a","m","e">>,
                   <<"x">>,
                   <<"y">>>>,
     roles |-> <<"tid", "other", "frame", "x", "y">>]

LayoutNames == {"plain", "spot", "padded", "substring", "noY", "trajNoY", "twoIds"}

LayoutOf(name) ==
    CASE name = "plain" -> LayoutPlain
      [] name = "spot" -> LayoutSpot
      [] name = "padded" -> LayoutPadded
      [] name = "substring" -> LayoutSubstring
      [] name = "noY" -> LayoutNoY
      [] name = "trajNoY" -> LayoutTrajNoY
      [] name = "twoIds" -> LayoutTwoIds

\* ok: frames 0, 1, 2, ...; same: every sample on one frame; textxy: x and y
\* hold text
TrackKinds == {"ok", "same", "textxy"}
TrackSpecs == [n : 1..MaxSamples, kind : TrackKinds]
TrackLists == UNION {[1..m -> TrackSpecs] : m \in 0..MaxTracks}

\* the cell of sample k of track tid in a column of the given role; with
\* frame_text the first row of the table holds text in its frame column
Cell(role, tid, k, spec, frame_text) ==
    CASE role = "tid" -> tid
      [] role = "frame" -> IF frame_text /\ tid = 1 /\ k = 1 THEN NonNumeric
                           ELSE IF spec.kind = "same" THEN 5 ELSE k - 1
      [] role = "x" -> IF spec.kind = "textxy" THEN NonNumeric ELSE k
      [] role = "y" -> IF spec.kind = "textxy" THEN NonNumeric ELSE k + 1
      [] OTHER -> 10 + tid

TrackRows(layout, tid, spec, frame_text) ==
    [k \in 1..spec.n |->
        [c \in 1..Len(layout.roles) |-> Cell(layout.roles[c], tid, k, spec, frame_text)]]

RECURSIVE TableRows(_, _, _, _)
\* the rows of tracks i.. of the list, one track after the other
TableRows(layout, tracks, frame_text, i) ==
    IF i > Len(tracks) THEN <<>>
    ELSE TrackRows(layout, i, tracks[i], frame_text)
             \o TableRows(layout, tracks, frame_text, i + 1)

MakeTable(layout, tracks, frame_text) ==
    [headers |-> layout.headers, rows |-> TableRows(layout, tracks, frame_text, 1)]

TrackIds == 1..(MaxTracks + 1)

\* what the loaded model may answer: a label index for every track
Classifiers == {[t \in TrackIds |-> 1], [t \in TrackIds |-> (t % 3) + 1]}

\* an input: the file (a layout and its tracks; layout "" is a file that
\* read_csv cannot read), the filter, and the state and answers of the model
EngineInputs ==
    [layout : LayoutNames, tracks : TrackLists, frame_text : {FALSE},
     filter_type : FilterTypes, model : {TRUE}, classifier : Classifiers,
     predict_ok : {TRUE}]
    \cup [layout : {"plain"}, tracks : TrackLists, frame_text : BOOLEAN,
          filter_type : {"All"}, model : BOOLEAN,
          classifier : {[t \in TrackIds |-> 1]}, predict_ok : BOOLEAN]
    \cup {[NoInput EXCEPT !.filter_type = f] : f \in FilterTypes}

\* what read_csv finds
FileOf(in) ==
    IF in.layout = "" THEN [kind |-> "unreadable", table |-> EmptyDF]
    ELSE [kind |-> "table", table |-> MakeTable(LayoutOf(in.layout), in.tracks, in.frame_text)]

EngineInit ==
    /\ eIn \in EngineInputs
    /\ eOut = NoOutput
    /\ settingsFile = AbsentFile /\ sCall = NoCall /\ AppParked

\* the call run_inference(file_path, filter_type)
EngineRun ==
    /\ ~eOut.done
    /\ eOut' = [done |-> TRUE,
                res |-> run_inference(FileOf(eIn), eIn.filter_type, eIn.model,
                                      eIn.classifier, eIn.predict_ok)]
    /\ UNCHANGED <<appVars, sCall, eIn>>

EngineNext == EngineRun

SpecEngine == EngineInit /\ [][EngineNext]_vars

\* the result of preprocessing the input's table
Pre(in) == preprocess_trajectory(FileOf(in).table)

\* the call reached the classifier and the classifier answered
ClassifiedWith(in, pp) ==
    /\ in.layout # "" /\ in.tracks # <<>>
    /\ ~pp.raised /\ pp.ok
    /\ in.model /\ in.predict_ok

\* the surviving tracks whose label the filter keeps
Matching(in, ids) ==
    {i \in 1..Len(ids) :
        in.filter_type = "All" \/ labels_map[in.classifier[ids[i]]] = in.filter_type}

FilteringSemantics(in, pp, res) ==
    ClassifiedWith(in, pp) =>
        /\ res.count_orig = Len(pp.track_ids)
        /\ res.count_filt = Cardinality(Matching(in, pp.track_ids))
        /\ Matching(in, pp.track_ids) = {} => res.present /\ res.df.rows = <<>>

\* C10: whenever the surviving trajectories were classified, originalCount
\* is their number, filteredCount the number of those whose label equals
\* filterType (all of them for All), and with no match the result is an
\* empty table that is present, with filteredCount 0
C10_FilteringSemantics ==
    eOut.done => FilteringSemantics(eIn, Pre(eIn), eOut.res)

\* the roles no column of the input's table holds
MissingRoles(in) ==
    {"tid", "frame", "x", "y"}
        \ {LayoutOf(in.layout).roles[c] : c \in 1..Len(LayoutOf(in.layout).roles)}

\* the message of line 56 prints the names found for the track-id and the
\* frame column, None for one that was not found: it says of these two roles,
\* and of no other, whether they are missing
Identifies(msg, role) ==
    /\ msg.text = "Missing columns. Found:"
    /\ \/ role = "tid" /\ msg.a = NoneName
       \/ role = "frame" /\ msg.b = NoneName

\* C11: preprocess_trajectory fails on every table in which one of the four
\* roles is missing, with a message that identifies each missing role.
C11_MissingRoleReported ==
    (eOut.done /\ eIn.layout # "" /\ eIn.tracks # <<>> /\ MissingRoles(eIn) # {}) =>
        /\ ~Pre(eIn).ok
        /\ \A r \in MissingRoles(eIn) : Identifies(Pre(eIn).msg, r)

\* the tracks of the input with fewer than 3 samples or all samples on one
\* frame, and the other tracks whose x and y values are numbers
DegenerateTracks(in) ==
    {t \in 1..Len(in.tracks) : in.tracks[t].n < 3 \/ in.tracks[t].kind = "same"}
SoundTracks(in) ==
    {t \in 1..Len(in.tracks) : in.tracks[t].n >= 3 /\ in.tracks[t].kind = "ok"}

\* the column of the input's table that holds the track ids
TidColumn(in) ==
    CHOOSE c \in 1..Len(LayoutOf(in.layout).roles) : LayoutOf(in.layout).roles[c] = "tid"

Occurrences(seq, x) == Cardinality({i \in 1..Len(seq) : seq[i] = x})

C14_AllKeepsEveryTrack ==
    (eOut.done /\ eIn.filter_type = "All" /\ eOut.res.present) =>
        \A r \in 1..Len(FileOf(eIn).table.rows) :
            \E j \in 1..Len(eOut.res.df.rows) :
                eOut.res.df.rows[j] = FileOf(eIn).table.rows[r]

\* the position preprocess_trajectory resolved as the track-id role
ResolvedTrack(in) ==
    find_column(StripAll(FileOf(in).table.headers), track_candidates).idx

\* the raw rows whose value at position col is one of the ids, in order
RowsOf(in, col, ids) ==
    LET Kept(row) == row[col] \in ids
    IN  SelectSeq(FileOf(in).table.rows, Kept)

\* C17: for every input table whose four roles resolve and that has a
\* surviving trajectory matching the filter, run_inference returns exactly
\* the raw rows whose value in the column at the position resolved as the
\* track-id role is a surviving id the filter keeps, in their original
\* order, whichever candidate name or substring match resolved the role.
C17_WriteBackOnResolvedColumn ==
    (/\ eOut.done
     /\ ClassifiedWith(eIn, Pre(eIn))
     /\ Matching(eIn, Pre(eIn).track_ids) # {}) =>
        /\ eOut.res.present
        /\ eOut.res.df.headers = FileOf(eIn).table.headers
        /\ eOut.res.df.rows =
               RowsOf(eIn, ResolvedTrack(eIn),
                      {Pre(eIn).track_ids[i] : i \in Matching(eIn, Pre(eIn).track_ids)})

====
